---------------------------- MODULE Spec2Model ----------------------------
(***************************************************************************)
(* The 6502 execution core of src/src/cpu.rs: the CPU struct, the Mem      *)
(* trait (byte and little-endian word access), load / reset / run and the  *)
(* instruction handlers.  A Rust panic (index out of bounds, arithmetic    *)
(* overflow under overflow checks, expect, todo!, panic!) is a value of    *)
(* the variable `panic`; the build profile decides whether `+` on u16      *)
(* panics or wraps, so it is chosen once in Init (overflow_checks).        *)
(***************************************************************************)
EXTENDS Integers, Sequences, FiniteSets, TLC

VARIABLES
    cpu,              \* the CPU struct: registers, status, program_counter, memory
    phase,            \* "host" | "running" | "halted" | "panicked"
    panic,            \* the panic that ended execution, NoPanic while none
    ret,              \* value returned by the last mem_read / mem_read_u16
    call,             \* the host's most recent call: [op, addr, data, program]
    calls,            \* number of steps the host has made so far
    entry_memory,     \* memory as it was when the host made its most recent call
    overflow_checks,  \* build profile: TRUE = debug (overflow panics), FALSE = release (wraps)
    interp            \* the standalone interpreter of src/src/lib.rs: [cpu, program, phase, panic]

vars == <<cpu, phase, panic, ret, call, calls, entry_memory, overflow_checks, interp>>

---------------------------------------------------------------------------
(* Widths and layout *)

\* u8: 2^8 values
W8 == 256
\* u16: 2^16 values
W16 == 65536
\* memory: [u8; 0xFFFF]
MemLen == 65535
\* 0x8000: where load copies the program image
ROM_START == 32768
\* 0xFFFC: the reset vector
RESET_VECTOR == 65532
\* 0b0000_0010
ZERO_FLAG == 2
\* 0b1111_1101
NOT_ZERO_FLAG == 253
\* 0b1000_0000
NEGATIVE_FLAG == 128
\* 0b0111_1111
NOT_NEGATIVE_FLAG == 127

Byte == 0 .. (W8 - 1)

\* bitwise a & b and a | b on the low n bits, as Rust's operators on u8
RECURSIVE BitAnd(_, _, _)
BitAnd(a, b, n) ==
    IF n = 0 THEN 0
    ELSE (IF a % 2 = 1 /\ b % 2 = 1 THEN 1 ELSE 0) + 2 * BitAnd(a \div 2, b \div 2, n - 1)

RECURSIVE BitOr(_, _, _)
BitOr(a, b, n) ==
    IF n = 0 THEN 0
    ELSE (IF a % 2 = 1 \/ b % 2 = 1 THEN 1 ELSE 0) + 2 * BitOr(a \div 2, b \div 2, n - 1)

And8(a, b) == BitAnd(a, b, 8)
Or8(a, b) == BitOr(a, b, 8)

---------------------------------------------------------------------------
(* Panics *)

NoPanic == [kind |-> "none", args |-> {}]
\* memory[addr as usize] with addr >= memory.len()
IndexPanic(index) ==
    [kind |-> "index out of bounds", args |-> {<<"len", MemLen>>, <<"index", index>>}]
\* memory[0x8000..end] with end > memory.len()
SlicePanic(end) ==
    [kind |-> "range end index out of range for slice", args |-> {<<"len", MemLen>>, <<"end", end>>}]
\* `+` / `+=` on u16 under overflow checks
OverflowPanic == [kind |-> "attempt to add with overflow", args |-> {}]
\* .expect(&format!("OpCode {:x} is not recognized", code))
OpCodePanic(code) == [kind |-> "OpCode {:x} is not recognized", args |-> {<<"opcode", code>>}]
\* panic!("Mode {:?} is not supported", mode)
ModePanic(mode) == [kind |-> "Mode {:?} is not supported", args |-> {<<"mode", mode>>}]
\* todo!()
TodoPanic == [kind |-> "not yet implemented", args |-> {}]

\* The result of a call on the CPU `self`: the CPU after it, the value it
\* returns, and the panic that ended it (NoPanic when it returned).
Val(self, v) == [panic |-> NoPanic, val |-> v, cpu |-> self]
Done(self) == [panic |-> NoPanic, val |-> 0, cpu |-> self]
Abort(self, p) == [panic |-> p, val |-> 0, cpu |-> self]
Ok(r) == r.panic = NoPanic

\* sequencing: evaluate r once; if it panicked the panic propagates, otherwise
\* continue with F on its result
Then(r, F(_)) == CHOOSE out \in {IF Ok(x) THEN F(x) ELSE x : x \in {r}} : TRUE

---------------------------------------------------------------------------
(* Memory: the array [u8; 0xFFFF], kept as the function from the indices   *)
(* holding a non-zero byte to that byte (every other index holds 0).       *)

Cell(memory, i) == IF i \in DOMAIN memory THEN memory[i] ELSE 0

Store(memory, i, data) ==
    IF data = 0
    THEN [a \in DOMAIN memory \ {i} |-> memory[a]]
    ELSE [a \in DOMAIN memory \cup {i} |-> IF a = i THEN data ELSE memory[a]]

\* u16 `+`: panics under overflow checks, wraps otherwise
AddU16(self, a, b) ==
    IF a + b < W16 THEN Val(self, a + b)
    ELSE IF overflow_checks THEN Abort(self, OverflowPanic)
    ELSE Val(self, (a + b) % W16)

mem_read(self, addr) ==
    IF addr < MemLen THEN Val(self, Cell(self.memory, addr))
    ELSE Abort(self, IndexPanic(addr))

mem_write(self, addr, data) ==
    IF addr < MemLen
    THEN Done([self EXCEPT !.memory = Store(self.memory, addr, data)])
    ELSE Abort(self, IndexPanic(addr))

mem_read_u16(self, addr) ==
    Then(AddU16(self, addr, 1), LAMBDA next :
    Then(mem_read(self, next.val), LAMBDA high :
    Then(mem_read(self, addr), LAMBDA low :
    Val(self, high.val * W8 + low.val))))

mem_write_u16(self, addr, data) ==
    Then(mem_write(self, addr, data % W8), LAMBDA w1 :
    Then(AddU16(w1.cpu, addr, 1), LAMBDA next :
    mem_write(w1.cpu, next.val, data \div W8)))

---------------------------------------------------------------------------
(* CPU *)

new ==
    [register_a |-> 0, register_x |-> 0, register_y |-> 0, status |-> 0,
     program_counter |-> 0, memory |-> [a \in {} |-> 0]]

\* the opcode table (crate::opcodes::OPCODES_MAP): opcode -> mnemonic, length, mode
OpCode(mnemonic, len, mode) == [mnemonic |-> mnemonic, len |-> len, mode |-> mode]

OPCODES_MAP ==
    (  0 :> OpCode("BRK", 1, "NoneAddressing")     \* 0x00
    @@ 170 :> OpCode("TAX", 1, "NoneAddressing")   \* 0xAA
    @@ 232 :> OpCode("INX", 1, "NoneAddressing")   \* 0xE8
    @@ 169 :> OpCode("LDA", 2, "Immediate")        \* 0xA9
    @@ 165 :> OpCode("LDA", 2, "ZeroPage")         \* 0xA5
    @@ 181 :> OpCode("LDA", 2, "ZeroPage_X")       \* 0xB5
    @@ 173 :> OpCode("LDA", 3, "Absolute")         \* 0xAD
    @@ 189 :> OpCode("LDA", 3, "Absolute_X")       \* 0xBD
    @@ 185 :> OpCode("LDA", 3, "Absolute_Y")       \* 0xB9
    @@ 161 :> OpCode("LDA", 2, "Indirect_X")       \* 0xA1
    @@ 177 :> OpCode("LDA", 2, "Indirect_Y")       \* 0xB1
    @@ 133 :> OpCode("STA", 2, "ZeroPage")         \* 0x85
    @@ 149 :> OpCode("STA", 2, "ZeroPage_X")       \* 0x95
    @@ 141 :> OpCode("STA", 3, "Absolute")         \* 0x8D
    @@ 157 :> OpCode("STA", 3, "Absolute_X")       \* 0x9D
    @@ 153 :> OpCode("STA", 3, "Absolute_Y")       \* 0x99
    @@ 129 :> OpCode("STA", 2, "Indirect_X")       \* 0x81
    @@ 145 :> OpCode("STA", 2, "Indirect_Y") )     \* 0x91

\* the opcodes run's match sends to lda and to sta
LDA_CODES == {169, 165, 181, 173, 189, 185, 161, 177}
STA_CODES == {133, 149, 141, 157, 153, 129, 145}

\* a faulty flag update: the zero flag decided by `self.status == 0` instead of `result == 0`
update_flags_testing_status(self, result) ==
    LET s1 == IF self.status = 0 THEN Or8(self.status, ZERO_FLAG)
              ELSE And8(self.status, NOT_ZERO_FLAG)
    IN  [self EXCEPT !.status =
            IF And8(result, NEGATIVE_FLAG) # 0 THEN Or8(s1, NEGATIVE_FLAG)
            ELSE And8(s1, NOT_NEGATIVE_FLAG)]

\* a faulty flag update: the flags assigned instead of or-ed into the status
update_flags_assigning(self, result) ==
    [self EXCEPT !.status =
        (IF result = 0 THEN ZERO_FLAG ELSE 0)
        + (IF And8(result, NEGATIVE_FLAG) # 0 THEN NEGATIVE_FLAG ELSE 0)]

update_zero_and_negative_flags(self, result) ==
    LET s1 == IF result = 0 THEN Or8(self.status, ZERO_FLAG)
              ELSE And8(self.status, NOT_ZERO_FLAG)
    IN  [self EXCEPT !.status =
            IF And8(result, NEGATIVE_FLAG) # 0 THEN Or8(s1, NEGATIVE_FLAG)
            ELSE And8(s1, NOT_NEGATIVE_FLAG)]

\* a faulty get_operand_address: the indexed modes add without wrapping
get_operand_address_plain_add(self, mode) ==
    CASE mode = "Immediate"  -> Val(self, self.program_counter)
      [] mode = "ZeroPage"   -> mem_read(self, self.program_counter)
      [] mode = "Absolute"   -> mem_read_u16(self, self.program_counter)
      [] mode = "ZeroPage_X" ->
            Then(mem_read(self, self.program_counter), LAMBDA pos :
            Val(self, pos.val + self.register_x))
      [] mode = "ZeroPage_Y" ->
            Then(mem_read(self, self.program_counter), LAMBDA pos :
            Val(self, pos.val + self.register_y))
      [] mode = "Absolute_X" ->
            Then(mem_read_u16(self, self.program_counter), LAMBDA base :
            Val(self, base.val + self.register_x))
      [] mode = "Absolute_Y" ->
            Then(mem_read_u16(self, self.program_counter), LAMBDA base :
            Val(self, base.val + self.register_y))
      [] mode = "Indirect_X" ->
            Then(mem_read(self, self.program_counter), LAMBDA base :
            Then(Val(self, (base.val + self.register_x) % W8), LAMBDA ptr :
            Then(mem_read(self, ptr.val), LAMBDA lo :
            Then(mem_read(self, (ptr.val + 1) % W16), LAMBDA hi :
            Val(self, hi.val * W8 + lo.val)))))
      [] mode = "NoneAddressing" -> Abort(self, ModePanic(mode))
      [] OTHER -> Abort(self, TodoPanic)

get_operand_address(self, mode) ==
    CASE mode = "Immediate"  -> Val(self, self.program_counter)
      [] mode = "ZeroPage"   -> mem_read(self, self.program_counter)
      [] mode = "Absolute"   -> mem_read_u16(self, self.program_counter)
      [] mode = "ZeroPage_X" ->
            Then(mem_read(self, self.program_counter), LAMBDA pos :
            Val(self, (pos.val + self.register_x) % W8))
      [] mode = "ZeroPage_Y" ->
            Then(mem_read(self, self.program_counter), LAMBDA pos :
            Val(self, (pos.val + self.register_y) % W8))
      [] mode = "Absolute_X" ->
            Then(mem_read_u16(self, self.program_counter), LAMBDA base :
            Val(self, (base.val + self.register_x) % W16))
      [] mode = "Absolute_Y" ->
            Then(mem_read_u16(self, self.program_counter), LAMBDA base :
            Val(self, (base.val + self.register_y) % W16))
      [] mode = "Indirect_X" ->
            Then(mem_read(self, self.program_counter), LAMBDA base :
            Then(Val(self, (base.val + self.register_x) % W8), LAMBDA ptr :
            Then(mem_read(self, ptr.val), LAMBDA lo :
            Then(mem_read(self, (ptr.val + 1) % W16), LAMBDA hi :
            Val(self, hi.val * W8 + lo.val)))))
      [] mode = "NoneAddressing" -> Abort(self, ModePanic(mode))
      [] OTHER -> Abort(self, TodoPanic)

lda(self, mode) ==
    Then(get_operand_address(self, mode), LAMBDA addr :
    Then(mem_read(self, addr.val), LAMBDA value :
    Done(update_zero_and_negative_flags(
            [self EXCEPT !.register_a = value.val], value.val))))

\* a faulty sta: it also sets the flags from the stored value
sta_setting_flags(self, mode) ==
    Then(get_operand_address(self, mode), LAMBDA addr :
    Then(mem_write(self, addr.val, self.register_a), LAMBDA w :
    Done(update_zero_and_negative_flags(w.cpu, w.cpu.register_a))))

sta(self, mode) ==
    Then(get_operand_address(self, mode), LAMBDA addr :
    mem_write(self, addr.val, self.register_a))

tax(self) ==
    Done(update_zero_and_negative_flags(
            [self EXCEPT !.register_x = self.register_a], self.register_a))

\* a faulty inx: `self.register_x += 1`, which overflows at 0xFF
inx_plain_add(self) ==
    IF self.register_x + 1 < W8
    THEN Done(update_zero_and_negative_flags(
            [self EXCEPT !.register_x = self.register_x + 1], self.register_x + 1))
    ELSE IF overflow_checks THEN Abort(self, OverflowPanic)
    ELSE Done(update_zero_and_negative_flags([self EXCEPT !.register_x = 0], 0))

inx(self) ==
    Done(update_zero_and_negative_flags(
            [self EXCEPT !.register_x = (self.register_x + 1) % W8],
            (self.register_x + 1) % W8))

\* a Vec<u8>: its length, and the function from the (0-based) indices holding
\* a non-zero byte to that byte
Vec(bytes) ==
    [len |-> Len(bytes),
     data |-> [i \in {j - 1 : j \in {k \in 1 .. Len(bytes) : bytes[k] # 0}} |-> bytes[i + 1]]]

\* memory[0x8000..0x8000 + program.len()].copy_from_slice(&program[..])
CopyImage(memory, program) ==
    LET InRange(a) == ROM_START <= a /\ a < ROM_START + program.len
        set == {ROM_START + i : i \in DOMAIN program.data}
    IN  [a \in {b \in DOMAIN memory : ~InRange(b)} \cup set |->
            IF InRange(a) THEN program.data[a - ROM_START] ELSE memory[a]]

\* a faulty load: the image copied into a zeroed memory
load_clearing_memory(self, program) ==
    IF ROM_START + program.len > MemLen
    THEN Abort(self, SlicePanic(ROM_START + program.len))
    ELSE mem_write_u16([self EXCEPT !.memory = CopyImage(new.memory, program)],
                       RESET_VECTOR, ROM_START)

load(self, program) ==
    IF ROM_START + program.len > MemLen
    THEN Abort(self, SlicePanic(ROM_START + program.len))
    ELSE mem_write_u16([self EXCEPT !.memory = CopyImage(self.memory, program)],
                       RESET_VECTOR, ROM_START)

\* a faulty reset: the status register left as it was
reset_keeping_status(self) ==
    Then(Done([self EXCEPT !.register_a = 0, !.register_x = 0, !.register_y = 0]),
         LAMBDA cleared :
    Then(mem_read_u16(cleared.cpu, RESET_VECTOR), LAMBDA vector :
    Done([cleared.cpu EXCEPT !.program_counter = vector.val])))

\* a faulty reset: register_y left as it was
reset_keeping_register_y(self) ==
    Then(Done([self EXCEPT !.register_a = 0, !.register_x = 0, !.status = 0]),
         LAMBDA cleared :
    Then(mem_read_u16(cleared.cpu, RESET_VECTOR), LAMBDA vector :
    Done([cleared.cpu EXCEPT !.program_counter = vector.val])))

reset(self) ==
    Then(Done([self EXCEPT !.register_a = 0, !.register_x = 0,
                           !.register_y = 0, !.status = 0]), LAMBDA cleared :
    Then(mem_read_u16(cleared.cpu, RESET_VECTOR), LAMBDA vector :
    Done([cleared.cpu EXCEPT !.program_counter = vector.val])))

\* a faulty match: the break arm sets the break flag (0b0001_0000) before returning
Dispatch_break_flag(self, code, mode) ==
    CASE code \in LDA_CODES -> Then(lda(self, mode), LAMBDA r : Val(r.cpu, FALSE))
      [] code \in STA_CODES -> Then(sta(self, mode), LAMBDA r : Val(r.cpu, FALSE))
      [] code = 170 -> Then(tax(self), LAMBDA r : Val(r.cpu, FALSE))
      [] code = 232 -> Then(inx(self), LAMBDA r : Val(r.cpu, FALSE))
      [] code = 0   -> Val([self EXCEPT !.status = Or8(self.status, 16)], TRUE)
      [] OTHER      -> Abort(self, TodoPanic)

\* run's match on `code`; val = TRUE when the arm executes `return`
Dispatch(self, code, mode) ==
    CASE code \in LDA_CODES -> Then(lda(self, mode), LAMBDA r : Val(r.cpu, FALSE))
      [] code \in STA_CODES -> Then(sta(self, mode), LAMBDA r : Val(r.cpu, FALSE))
      [] code = 170 -> Then(tax(self), LAMBDA r : Val(r.cpu, FALSE))
      [] code = 232 -> Then(inx(self), LAMBDA r : Val(r.cpu, FALSE))
      [] code = 0   -> Val(self, TRUE)
      [] OTHER      -> Abort(self, TodoPanic)

\* a faulty iteration: the fetch does not advance the program counter
run_iteration_fetch_in_place(self) ==
    Then(mem_read(self, self.program_counter), LAMBDA code :
    Then(Val(self, self.program_counter), LAMBDA pc1 :
    Then(Done([self EXCEPT !.program_counter = pc1.val]), LAMBDA fetched :
    IF code.val \notin DOMAIN OPCODES_MAP
    THEN Abort(fetched.cpu, OpCodePanic(code.val))
    ELSE
    Then(Dispatch(fetched.cpu, code.val, OPCODES_MAP[code.val].mode), LAMBDA d :
    IF d.val \/ pc1.val # d.cpu.program_counter THEN d
    ELSE
    Then(AddU16(d.cpu, d.cpu.program_counter, OPCODES_MAP[code.val].len - 1), LAMBDA pc2 :
    Val([d.cpu EXCEPT !.program_counter = pc2.val], FALSE))))))

\* one iteration of run's loop; val = TRUE when the iteration executes `return`
run_iteration(self) ==
    Then(mem_read(self, self.program_counter), LAMBDA code :
    Then(AddU16(self, self.program_counter, 1), LAMBDA pc1 :
    Then(Done([self EXCEPT !.program_counter = pc1.val]), LAMBDA fetched :
    IF code.val \notin DOMAIN OPCODES_MAP
    THEN Abort(fetched.cpu, OpCodePanic(code.val))
    ELSE
    Then(Dispatch(fetched.cpu, code.val, OPCODES_MAP[code.val].mode), LAMBDA d :
    IF d.val \/ pc1.val # d.cpu.program_counter THEN d
    ELSE
    Then(AddU16(d.cpu, d.cpu.program_counter, OPCODES_MAP[code.val].len - 1), LAMBDA pc2 :
    Val([d.cpu EXCEPT !.program_counter = pc2.val], FALSE))))))

---------------------------------------------------------------------------
(* The standalone interpreter of src/src/lib.rs: its own CPU struct        *)
(* (register_a, status, an 8-bit program_counter) and interpret, which     *)
(* reads the program vector directly.                                      *)

lib_new == [register_a |-> 0, status |-> 0, program_counter |-> 0]

\* program[i as usize] with i >= program.len()
VecIndexPanic(len, index) ==
    [kind |-> "index out of bounds", args |-> {<<"len", len>>, <<"index", index>>}]

\* program[index as usize]
VecIndex(self, program, index) ==
    IF index < program.len THEN Val(self, Cell(program.data, index))
    ELSE Abort(self, VecIndexPanic(program.len, index))

\* u8 `+=`: panics under overflow checks, wraps otherwise
AddU8(self, a, b) ==
    IF a + b < W8 THEN Val(self, a + b)
    ELSE IF overflow_checks THEN Abort(self, OverflowPanic)
    ELSE Val(self, (a + b) % W8)

\* the 0xA9 arm of interpret's match
lib_lda(self, program) ==
    Then(VecIndex(self, program, self.program_counter), LAMBDA param :
    Then(Done([self EXCEPT !.register_a = param.val]), LAMBDA assigned :
    Then(AddU8(assigned.cpu, assigned.cpu.program_counter, 1), LAMBDA pc2 :
    Then(Done([pc2.cpu EXCEPT !.program_counter = pc2.val]), LAMBDA loaded :
    Then(Done([loaded.cpu EXCEPT !.status =
                  IF loaded.cpu.status = 0 THEN Or8(loaded.cpu.status, ZERO_FLAG)
                  ELSE And8(loaded.cpu.status, NOT_ZERO_FLAG)]), LAMBDA z :
    Val([z.cpu EXCEPT !.status =
            IF And8(z.cpu.register_a, NEGATIVE_FLAG) # 0
            THEN Or8(z.cpu.status, NEGATIVE_FLAG)
            ELSE And8(z.cpu.status, NOT_NEGATIVE_FLAG)], FALSE))))))

\* one iteration of interpret's loop; val = TRUE when the iteration executes `return`
interpret_iteration(self, program) ==
    Then(VecIndex(self, program, self.program_counter), LAMBDA ops_code :
    Then(AddU8(self, self.program_counter, 1), LAMBDA pc1 :
    Then(Done([self EXCEPT !.program_counter = pc1.val]), LAMBDA fetched :
    CASE ops_code.val = 169 -> lib_lda(fetched.cpu, program)
      [] ops_code.val = 0   -> Val(fetched.cpu, TRUE)
      [] OTHER              -> Abort(fetched.cpu, TodoPanic))))

---------------------------------------------------------------------------
(* The host: the code that owns the CPU (the tests of cpu.rs) and calls    *)
(* its methods one after another, with arguments from small sets.          *)

\* number of calls the host makes
MaxCalls == 2
\* how many increment-X instructions the generated programs repeat
MaxInx == 2

\* addresses the host passes to the memory bus: 0x0000, 0x0010, 0x00FF,
\* 0xFFFC (reset vector), 0xFFFE, 0xFFFF
BusAddrs == {0, 16, 255, 65532, 65534, 65535}
\* bytes the host writes: 0x00, 0x55, 0x80
BusBytes == {0, 85, 128}
\* words the host writes: 0x8000, 0x1234, 0xFFFF
BusWords == {32768, 4660, 65535}
\* status bytes the host assigns: 0b0111_1101, 0b1111_1111
StatusBytes == {125, 255}
\* register_y bytes the host assigns
IndexYBytes == {1, 255}

\* an image of the given length: LDA #$05, then zeroes, then 0xE8 from 0xFFF8 on
Image(length) ==
    [len |-> length,
     data |-> [i \in {0, 1} \cup {j \in 32760 .. 32767 : j < length} |->
                 IF i = 0 THEN 169 ELSE IF i = 1 THEN 5 ELSE 232]]

\* 0xE8 repeated n times
RECURSIVE Inxs(_)
Inxs(n) == IF n = 0 THEN <<>> ELSE <<232>> \o Inxs(n - 1)

\* LDA #v; TAX; INX * n; BRK
LdaTaxInx(v, n) == Vec(<<169, v, 170>> \o Inxs(n) \o <<0>>)

Programs ==
    { Vec(<<>>),
      Vec(<<169, 5, 0>>),                 \* LDA #$05; BRK
      Vec(<<169, 0, 0>>),                 \* LDA #$00; BRK
      Vec(<<165, 16, 0>>),                \* LDA $10; BRK
      Vec(<<169, 85, 133, 16, 0>>),       \* LDA #$55; STA $10; BRK
      Vec(<<169, 5, 2>>),                 \* LDA #$05; then 0x02, not an opcode
      Vec(<<170, 177, 16, 0>>),           \* TAX; LDA ($10),Y; BRK
      Vec(<<185, 16, 0, 0>>) }            \* LDA $0010,Y; BRK
    \cup { LdaTaxInx(255, n) : n \in 0 .. MaxInx }
    \cup { Image(l) : l \in {32764, 32767, 32768} }   \* 0x7FFC, 0x7FFF, 0x8000

NoVec == Vec(<<>>)

Call(op, addr, data, program) ==
    [op |-> op, addr |-> addr, data |-> data, program |-> program]

HostReady == phase \in {"host", "halted"} /\ calls < MaxCalls

\* the host's call returns with result r, or panics
Return(r, c, value) ==
    /\ cpu' = r.cpu
    /\ panic' = r.panic
    /\ phase' = IF Ok(r) THEN "host" ELSE "panicked"
    /\ ret' = value
    /\ call' = c
    /\ calls' = calls + 1
    /\ entry_memory' = cpu.memory
    /\ UNCHANGED <<overflow_checks, interp>>

\* the host's call enters run's loop, or panics before it
Enter(r, c) ==
    /\ cpu' = r.cpu
    /\ panic' = r.panic
    /\ phase' = IF Ok(r) THEN "running" ELSE "panicked"
    /\ call' = c
    /\ calls' = calls + 1
    /\ entry_memory' = cpu.memory
    /\ UNCHANGED <<ret, overflow_checks, interp>>

MemWrite(addr, data) ==
    /\ HostReady
    /\ Return(mem_write(cpu, addr, data), Call("mem_write", addr, data, NoVec), ret)

MemRead(addr) ==
    /\ HostReady
    /\ \E r \in {mem_read(cpu, addr)} :
         Return(r, Call("mem_read", addr, 0, NoVec), r.val)

MemWriteU16(addr, data) ==
    /\ HostReady
    /\ Return(mem_write_u16(cpu, addr, data), Call("mem_write_u16", addr, data, NoVec), ret)

MemReadU16(addr) ==
    /\ HostReady
    /\ \E r \in {mem_read_u16(cpu, addr)} :
         Return(r, Call("mem_read_u16", addr, 0, NoVec), r.val)

\* the host assigns the public field `status`
SetStatus(data) ==
    /\ HostReady
    /\ Return(Done([cpu EXCEPT !.status = data]), Call("status", 0, data, NoVec), ret)

\* the host assigns the public field `register_y`
SetRegisterY(data) ==
    /\ HostReady
    /\ Return(Done([cpu EXCEPT !.register_y = data]), Call("register_y", 0, data, NoVec), ret)

Load(program) ==
    /\ HostReady
    /\ Return(load(cpu, program), Call("load", 0, 0, program), ret)

Reset ==
    /\ HostReady
    /\ Return(reset(cpu), Call("reset", 0, 0, NoVec), ret)

Run ==
    /\ HostReady
    /\ Enter(Done(cpu), Call("run", 0, 0, NoVec))

\* load_and_run up to its call of run
load_and_run(self, program) ==
    Then(load(self, program), LAMBDA loaded : reset(loaded.cpu))

LoadAndRun(program) ==
    /\ HostReady
    /\ Enter(load_and_run(cpu, program), Call("load_and_run", 0, 0, program))

\* one iteration of run's loop
Step ==
    /\ phase = "running"
    /\ \E r \in {run_iteration(cpu)} :
         /\ cpu' = r.cpu
         /\ panic' = r.panic
         /\ phase' = IF ~Ok(r) THEN "panicked" ELSE IF r.val THEN "halted" ELSE "running"
    /\ UNCHANGED <<ret, call, calls, entry_memory, overflow_checks, interp>>

Init ==
    /\ cpu = new
    /\ phase = "host"
    /\ panic = NoPanic
    /\ ret = 0
    /\ call = Call("new", 0, 0, NoVec)
    /\ calls = 0
    /\ entry_memory = new.memory
    /\ overflow_checks \in BOOLEAN
    /\ interp = [cpu |-> lib_new, program |-> NoVec, phase |-> "host", panic |-> NoPanic]

Next ==
    \/ \E addr \in BusAddrs, data \in BusBytes : MemWrite(addr, data)
    \/ \E addr \in BusAddrs : MemRead(addr)
    \/ \E addr \in BusAddrs, data \in BusWords : MemWriteU16(addr, data)
    \/ \E addr \in BusAddrs : MemReadU16(addr)
    \/ \E data \in StatusBytes : SetStatus(data)
    \/ \E data \in IndexYBytes : SetRegisterY(data)
    \/ \E program \in Programs : Load(program)
    \/ Reset
    \/ Run
    \/ \E program \in Programs : LoadAndRun(program)
    \/ Step

Spec == Init /\ [][Next]_vars

---------------------------------------------------------------------------
(* The tests of cpu.rs, for every operand byte: a fresh CPU, an optional   *)
(* mem_write seeding one zero-page cell, then one load_and_run.            *)

\* zero-page cells the tests seed: 0x00, 0x10, 0x7F, 0x80, 0xFF
SeedAddrs == {0, 16, 127, 128, 255}

\* test_0xa9_lda_immediate_load_data, test_0xa9_lda_zero_flag
LdaImmediate(v) == Vec(<<169, v, 0>>)
\* test_lda_from_memory
LdaZeroPage(z) == Vec(<<165, z, 0>>)

TestSeed ==
    /\ calls = 0
    /\ \E z \in SeedAddrs, v \in Byte : MemWrite(z, v)

TestLdaImmediate ==
    /\ calls = 0
    /\ \E v \in Byte : LoadAndRun(LdaImmediate(v))

TestLdaZeroPage ==
    /\ calls = 1
    /\ call.op = "mem_write"
    /\ LoadAndRun(LdaZeroPage(call.addr))

TestLdaTaxInx ==
    /\ calls = 0
    /\ \E v \in Byte, n \in 0 .. MaxInx : LoadAndRun(LdaTaxInx(v, n))

NextTests ==
    \/ TestSeed
    \/ TestLdaImmediate
    \/ TestLdaZeroPage
    \/ TestLdaTaxInx
    \/ Step

SpecTests == Init /\ [][NextTests]_vars

---------------------------------------------------------------------------
(* Instruction fixtures: the host seeds the zero page, loads an image,     *)
(* assigns the public fields of the CPU and calls run.                     *)

\* one instruction per opcode of the table, with operand bytes 0x10 0x00,
\* then BRK
ExecPrograms == {Vec(<<code, 16, 0, 0>>) : code \in DOMAIN OPCODES_MAP}
\* operand bytes after the opcode: 0x10 (word 0x0010), 0xFF (word 0x00FF), 0xFF (word 0xFFFF)
EdgeOperands == {<<16, 0>>, <<255, 0>>, <<255, 255>>}
EdgePrograms ==
    {Vec(<<code, operand[1], operand[2], 0>>) :
        code \in DOMAIN OPCODES_MAP, operand \in EdgeOperands}
\* LDA #v; STA $10; INX; STA $11; BRK
LdaStaInxSta(v) == Vec(<<169, v, 133, 16, 232, 133, 17, 0>>)
\* LDA #$E8; STA $8005; BRK; BRK: the store turns the first BRK into INX
SelfModifying == Vec(<<169, 232, 141, 5, 128, 0, 0>>)
SeqPrograms == {LdaStaInxSta(0), LdaStaInxSta(128), SelfModifying}
\* memory before the load: empty, or
\* 0x00: 0x77, 0x10: 0x80, 0x11: 0x01, 0xFF: 0x34, 0x100: 0x12
ExecSeeds == {new.memory, (0 :> 119 @@ 16 :> 128 @@ 17 :> 1 @@ 255 :> 52 @@ 256 :> 18)}
\* where the instruction is placed and run from: 0x8000, 0xFFFD, 0xFFFE
ExecOrigins == {ROM_START, MemLen - 2, MemLen - 1}
\* 0b0000_0000, 0b0111_1101, 0b1000_0010, 0b1111_1111
ExecStatus == {0, 125, 130, 255}
ExecA == {0, 5, 128}
ExecX == {0, 1, 255}
ExecY == {0, 1}

\* mem_write of the program's bytes at origin .. (the cells the array has)
Place(memory, program, origin) ==
    LET At(a) == origin <= a /\ a < origin + program.len /\ a < MemLen
        set == {a \in {origin + i : i \in DOMAIN program.data} : a < MemLen}
    IN  [a \in {b \in DOMAIN memory : ~At(b)} \cup set |->
            IF At(a) THEN program.data[a - origin] ELSE memory[a]]

Arrange(seeds, program, origin, status, a, x, y) ==
    /\ HostReady
    /\ calls = 0
    /\ \E loaded \in {load([cpu EXCEPT !.memory = seeds], program)} :
         /\ Ok(loaded)
         /\ cpu' = [loaded.cpu EXCEPT !.memory = Place(@, program, origin),
                                      !.register_a = a, !.register_x = x,
                                      !.register_y = y, !.status = status,
                                      !.program_counter = origin]
    /\ phase' = "running"
    /\ call' = Call("run", 0, 0, program)
    /\ calls' = calls + 1
    /\ entry_memory' = cpu'.memory
    /\ UNCHANGED <<panic, ret, overflow_checks, interp>>

NextExec ==
    \/ /\ HostReady /\ calls = 0
       /\ \E seeds \in ExecSeeds, program \in ExecPrograms \cup SeqPrograms,
             status \in ExecStatus,
             a \in ExecA, x \in ExecX, y \in ExecY :
             Arrange(seeds, program, ROM_START, status, a, x, y)
    \/ /\ HostReady /\ calls = 0
       /\ \E seeds \in ExecSeeds, program \in EdgePrograms, origin \in ExecOrigins,
             x \in ExecX, y \in ExecY :
             Arrange(seeds, program, origin, new.status, 5, x, y)
    \/ Step

SpecExec == Init /\ [][NextExec]_vars

\* run's loop is straight-line code: an iteration that can execute does
SpecExecFair == SpecExec /\ WF_vars(Step)

---------------------------------------------------------------------------
(* The tests of lib.rs: a fresh CPU and one call of interpret.             *)

\* [0xA9, v, 0x00] for every byte v; the empty program; an unknown opcode;
\* LDA with no operand; LDA with no break after it
LibPrograms ==
    {LdaImmediate(v) : v \in Byte}
    \cup {Vec(<<>>), Vec(<<2>>), Vec(<<169>>), Vec(<<169, 5>>)}

\* interpret's entry: self.program_counter = 0
Interpret(program) ==
    /\ interp.phase = "host"
    /\ interp' = [interp EXCEPT !.cpu.program_counter = 0, !.program = program,
                                !.phase = "running"]
    /\ UNCHANGED <<cpu, phase, panic, ret, call, calls, entry_memory, overflow_checks>>

\* one iteration of interpret's loop
InterpretStep ==
    /\ interp.phase = "running"
    /\ \E r \in {interpret_iteration(interp.cpu, interp.program)} :
         interp' = [interp EXCEPT
                      !.cpu = r.cpu,
                      !.panic = r.panic,
                      !.phase = IF ~Ok(r) THEN "panicked"
                                ELSE IF r.val THEN "returned" ELSE "running"]
    /\ UNCHANGED <<cpu, phase, panic, ret, call, calls, entry_memory, overflow_checks>>

NextLib ==
    \/ \E program \in LibPrograms : Interpret(program)
    \/ InterpretStep

SpecLib == Init /\ [][NextLib]_vars

---------------------------------------------------------------------------
(* Properties *)

ZeroSet(status) == And8(status, ZERO_FLAG) # 0
NegativeSet(status) == And8(status, NEGATIVE_FLAG) # 0
\* bit 7 of a byte
Bit7(v) == v >= 128

\* C1: load_and_run of [0xA9, v, 0x00] on a fresh CPU never panics and, once
\* it has returned, the accumulator is v, the zero flag is set iff v = 0 and
\* the negative flag is set iff bit 7 of v is set.
LdaImmediateLoadsOperand ==
    LET v == Cell(call.program.data, 1) IN
    (call.op = "load_and_run" /\ call.program = LdaImmediate(v)) =>
        /\ phase # "panicked"
        /\ phase = "halted" =>
            /\ cpu.register_a = v
            /\ ZeroSet(cpu.status) <=> v = 0
            /\ NegativeSet(cpu.status) <=> Bit7(v)

\* C1 witness: LDA #$80; BRK has returned with the accumulator 0x80 and the
\* negative flag set
LdaImmediateHalted ==
    /\ phase = "halted"
    /\ call.op = "load_and_run"
    /\ call.program = LdaImmediate(128)
    /\ cpu.register_a = 128
    /\ cpu.status = 128

\* C2: the memory bus is total over 0x0000..0xFFFF: mem_write(a, v) and
\* mem_read(a) never panic, the write leaves v at a and the read returns the
\* byte at a.
BusTotal ==
    /\ call.op \in {"mem_write", "mem_read"} => phase # "panicked"
    /\ call.op = "mem_write" => Cell(cpu.memory, call.addr) = call.data
    /\ call.op = "mem_read" => ret = Cell(cpu.memory, call.addr)

\* C3: mem_write_u16(addr, x) and mem_read_u16(addr) never panic for any
\* 16-bit addr; the write leaves the low byte of x at addr and the high byte
\* at addr + 1, and the read returns the word stored there.
WordRoundTrip ==
    /\ call.op \in {"mem_write_u16", "mem_read_u16"} => phase # "panicked"
    /\ call.op = "mem_write_u16" =>
        /\ Cell(cpu.memory, call.addr) = call.data % W8
        /\ Cell(cpu.memory, (call.addr + 1) % W16) = call.data \div W8
    /\ call.op = "mem_read_u16" =>
        ret = Cell(cpu.memory, call.addr) + W8 * Cell(cpu.memory, (call.addr + 1) % W16)

\* C4: load of an image of length L <= 0x8000 never panics, leaves byte i of
\* the image at 0x8000 + i for every i < L outside the reset vector, and
\* leaves 0x8000 in the reset vector, so that reset sets the program counter
\* to 0x8000.
LoadPlacesImage ==
    (call.op = "load" /\ call.program.len <= W16 - ROM_START) =>
        /\ phase # "panicked"
        /\ \A i \in DOMAIN call.program.data \cup
                    {a - ROM_START : a \in {b \in DOMAIN cpu.memory :
                                             ROM_START <= b /\ b < ROM_START + call.program.len}} :
              ROM_START + i \notin {RESET_VECTOR, RESET_VECTOR + 1} =>
                  Cell(cpu.memory, ROM_START + i) = Cell(call.program.data, i)
        /\ Cell(cpu.memory, RESET_VECTOR) = ROM_START % W8
        /\ Cell(cpu.memory, RESET_VECTOR + 1) = ROM_START \div W8
        /\ reset(cpu).cpu.program_counter = ROM_START

\* C5: reset never panics, zeroes the accumulator, both index registers and
\* the status, sets the program counter to the little-endian word at
\* 0xFFFC-0xFFFD and leaves memory alone; a second reset changes nothing.
ResetIdempotent ==
    call.op = "reset" =>
        /\ phase # "panicked"
        /\ cpu.register_a = 0 /\ cpu.register_x = 0 /\ cpu.register_y = 0
        /\ cpu.status = 0
        /\ cpu.program_counter =
              Cell(cpu.memory, RESET_VECTOR) + W8 * Cell(cpu.memory, RESET_VECTOR + 1)
        /\ cpu.memory = entry_memory
        /\ reset(cpu) = Done(cpu)

\* C5 witness: reset has returned with the program counter at 0x1234, the
\* word the host had written to the reset vector
ResetToWrittenVector ==
    /\ call.op = "reset"
    /\ phase = "host"
    /\ cpu.program_counter = 4660
    /\ Cell(cpu.memory, RESET_VECTOR) = 52

\* C6: memory seeded before load_and_run is what the program sees: load and
\* reset leave every cell outside the copied image and the reset vector as it
\* was, and [0xA5, z, 0x00] returns with the accumulator equal to the byte
\* that was at z.
SeededMemoryVisible ==
    LET z == Cell(call.program.data, 1)
        Copied(a) == ROM_START <= a /\ a < ROM_START + call.program.len
    IN  call.op = "load_and_run" =>
            /\ \A a \in DOMAIN entry_memory \cup DOMAIN cpu.memory :
                  (~Copied(a) /\ a \notin {RESET_VECTOR, RESET_VECTOR + 1}) =>
                      Cell(cpu.memory, a) = Cell(entry_memory, a)
            /\ call.program = LdaZeroPage(z) =>
                  /\ phase # "panicked"
                  /\ phase = "halted" => cpu.register_a = Cell(entry_memory, z)

\* C6 witness: after mem_write(0x10, 0x55), [0xA5, 0x10, 0x00] has returned
\* with the accumulator 0x55
SeededByteLoaded ==
    /\ phase = "halted"
    /\ call.program = LdaZeroPage(16)
    /\ Cell(entry_memory, 16) = 85
    /\ cpu.register_a = 85

\* C7: [0xA9, v, 0xAA, 0xE8 * n, 0x00] never panics and returns with indexX =
\* (v + n) mod 256, the zero flag set iff indexX = 0 and the negative flag set
\* iff bit 7 of indexX is set.
InxWraps ==
    LET v == Cell(call.program.data, 1)
        n == call.program.len - 4
    IN  (call.op = "load_and_run" /\ n >= 0 /\ call.program = LdaTaxInx(v, n)) =>
            /\ phase # "panicked"
            /\ phase = "halted" =>
                /\ cpu.register_x = (v + n) % W8
                /\ ZeroSet(cpu.status) <=> cpu.register_x = 0
                /\ NegativeSet(cpu.status) <=> Bit7(cpu.register_x)

\* C7 witness: test_inx_overflow, LDA #$FF; TAX; INX; INX; BRK has returned
\* with indexX = 1
InxOverflowHalted ==
    /\ phase = "halted"
    /\ call.program = LdaTaxInx(255, 2)
    /\ cpu.register_x = 1

\* C8: no iteration of run's loop (load-accumulator, store-accumulator,
\* transfer-A-to-X, increment-X, break, each with the flag update it makes)
\* changes status bits 0, 2, 3, 4, 5 or 6.
OtherStatusBitsPreserved ==
    [][phase = "running" =>
          And8(cpu'.status, And8(NOT_ZERO_FLAG, NOT_NEGATIVE_FLAG))
              = And8(cpu.status, And8(NOT_ZERO_FLAG, NOT_NEGATIVE_FLAG))]_vars

\* C8 witness: LDA $10 has loaded 0x80 under a status that was 0b0111_1101 or
\* 0b1111_1111, and the status is 0b1111_1101
LdaUnderFullStatus ==
    /\ Cell(cpu.memory, ROM_START) = 165
    /\ cpu.program_counter = ROM_START + 2
    /\ cpu.register_a = 128
    /\ cpu.status = 253

\* C9: a fetched byte with no entry in the opcode table stops execution with a
\* panic whose message carries the opcode and the address it was fetched from.
UnknownOpcodeReported ==
    panic.kind = OpCodePanic(0).kind =>
        /\ phase = "panicked"
        /\ <<"opcode", Cell(cpu.memory, cpu.program_counter - 1)>> \in panic.args
        /\ <<"address", cpu.program_counter - 1>> \in panic.args

\* C10: an iteration that fetches 0x00 halts the loop, leaves the registers,
\* the status and memory as they were and the program counter one past the
\* break; only such an iteration halts; once halted nothing happens until the
\* host's next call.
BreakHalts ==
    [][/\ (phase = "running" /\ cpu.program_counter < MemLen
              /\ Cell(cpu.memory, cpu.program_counter) = 0) =>
            /\ phase' = "halted"
            /\ cpu' = [cpu EXCEPT !.program_counter = cpu.program_counter + 1]
       /\ (phase = "running" /\ phase' = "halted") =>
            Cell(cpu.memory, cpu.program_counter) = 0
       /\ phase = "halted" => calls' = calls + 1]_vars

\* C10 witness: LDA #$55; STA $10; BRK has halted one past the break with the
\* accumulator and the stored byte in place
BreakHalted ==
    /\ phase = "halted"
    /\ cpu.program_counter = ROM_START + 5
    /\ cpu.register_a = 85
    /\ Cell(cpu.memory, 16) = 85

\* C11: interpret of [0xA9, v, 0x00] on a fresh CPU returns with register_a =
\* v, status bit 1 set iff v = 0 and status bit 7 set iff bit 7 of v is set.
InterpretLdaImmediate ==
    LET v == Cell(interp.program.data, 1) IN
    (interp.phase = "returned" /\ interp.program = LdaImmediate(v)) =>
        /\ interp.cpu.register_a = v
        /\ ZeroSet(interp.cpu.status) <=> v = 0
        /\ NegativeSet(interp.cpu.status) <=> Bit7(v)

\* the opcode byte at the program counter
Fetched(self) == Cell(self.memory, self.program_counter)

\* the operand bytes get_operand_address reads at the program counter
OperandBytes(mode) ==
    CASE mode \in {"Immediate", "ZeroPage", "ZeroPage_X", "ZeroPage_Y",
                   "Indirect_X", "Indirect_Y"} -> 1
      [] mode \in {"Absolute", "Absolute_X", "Absolute_Y"} -> 2
      [] OTHER -> 0

\* LDA, STA, TAX, INX: every table entry but BRK
NonHalting == (DOMAIN OPCODES_MAP) \ {0}

\* C12: one iteration of run's loop on an LDA, STA, TAX or INX opcode at
\* address p leaves the program counter at (p + 1 + operand bytes) mod 65536,
\* and the handler sees p + 1: LDA immediate loads the byte at p + 1.
PcAdvance ==
    [][(phase = "running" /\ Fetched(cpu) \in NonHalting) =>
         LET p == cpu.program_counter
             op == OPCODES_MAP[Fetched(cpu)]
         IN  /\ phase' = "running"
             /\ cpu'.program_counter = (p + 1 + OperandBytes(op.mode)) % W16
             /\ op.len = 1 + OperandBytes(op.mode)
             /\ Fetched(cpu) = 169 =>
                   cpu'.register_a = Cell(cpu.memory, (p + 1) % W16)]_vars

\* the addressing mode of the opcode at the program counter ("" when it has no entry)
FetchedMode(self) ==
    IF Fetched(self) \in DOMAIN OPCODES_MAP THEN OPCODES_MAP[Fetched(self)].mode ELSE ""

\* what a handler sees: the program counter on the first operand byte
HandlerView(self) == [self EXCEPT !.program_counter = self.program_counter + 1]

\* C13: for LDA and STA (Indirect,X) with operand byte b, ptr = (b + x) mod 256,
\* the effective address is memory[ptr] + 256 * memory[(ptr + 1) mod 256]: LDA
\* loads from it and STA stores to it.
IndirectXStaysInZeroPage ==
    [][(/\ phase = "running"
        /\ FetchedMode(cpu) = "Indirect_X"
        /\ cpu.program_counter + 1 < MemLen) =>
         LET b == Cell(cpu.memory, cpu.program_counter + 1)
             ptr == (b + cpu.register_x) % W8
             ea == Cell(cpu.memory, ptr) + W8 * Cell(cpu.memory, (ptr + 1) % W8)
         IN  /\ phase' = "running"
             /\ Fetched(cpu) \in LDA_CODES => cpu'.register_a = Cell(cpu.memory, ea)
             /\ Fetched(cpu) \in STA_CODES =>
                   cpu'.memory = Store(cpu.memory, ea, cpu.register_a)]_vars

\* the modes get_operand_address resolves
ResolvedModes ==
    {"Immediate", "ZeroPage", "Absolute", "ZeroPage_X", "ZeroPage_Y",
     "Absolute_X", "Absolute_Y"}

\* the address a mode denotes, from the operand byte / little-endian operand
\* word at pc and the index registers
DenotedAddress(self, mode) ==
    LET operand == Cell(self.memory, self.program_counter)
        word == operand + W8 * Cell(self.memory, self.program_counter + 1)
    IN  CASE mode = "Immediate"  -> self.program_counter
          [] mode = "ZeroPage"   -> operand
          [] mode = "Absolute"   -> word
          [] mode = "ZeroPage_X" -> (operand + self.register_x) % W8
          [] mode = "ZeroPage_Y" -> (operand + self.register_y) % W8
          [] mode = "Absolute_X" -> (word + self.register_x) % W16
          [] mode = "Absolute_Y" -> (word + self.register_y) % W16

\* C14: whenever the operand bytes lie inside memory, get_operand_address
\* returns (operand + index) mod 256 for ZeroPage,X / ZeroPage,Y, (word + index)
\* mod 65536 for Absolute,X / Absolute,Y, the operand for ZeroPage, the word
\* for Absolute and the program counter for Immediate.
IndexedAddressWraps ==
    phase = "running" =>
        \A mode \in ResolvedModes :
            HandlerView(cpu).program_counter + OperandBytes(mode) <= MemLen =>
                \E r \in {get_operand_address(HandlerView(cpu), mode)} :
                    /\ Ok(r)
                    /\ r.val = DenotedAddress(HandlerView(cpu), mode)
                    /\ r.val < W16
                    /\ mode \in {"ZeroPage", "ZeroPage_X", "ZeroPage_Y"} => r.val < W8
                    /\ r.cpu = HandlerView(cpu)

\* STA Absolute,X with operand word 0xFFFF and x = 1 has stored a = 5 at 0x0000
AbsoluteXWrapped ==
    /\ phase = "running"
    /\ call.program = Vec(<<157, 255, 255, 0>>)
    /\ cpu.register_x = 1
    /\ cpu.program_counter = ROM_START + 3
    /\ Cell(entry_memory, 0) # cpu.register_a
    /\ Cell(cpu.memory, 0) = cpu.register_a

\* C15: no iteration of run's loop faults on program-counter or address
\* arithmetic: an iteration that starts at pc = 0xFFFF, or whose operands or
\* length reach past 0xFFFF, continues with everything taken modulo 65536.
AddressArithmeticWraps ==
    [][phase = "running" =>
         /\ panic'.kind \notin {IndexPanic(0).kind, OverflowPanic.kind}
         /\ (cpu.program_counter = W16 - 1 /\ phase' = "halted") =>
               cpu'.program_counter = 0
         /\ (Fetched(cpu) \in NonHalting /\ phase' = "running") =>
               cpu'.program_counter =
                   (cpu.program_counter + OPCODES_MAP[Fetched(cpu)].len) % W16]_vars

\* status bits 1 and 7 are those of the 8-bit result
FlagsOf(status, result) ==
    /\ ZeroSet(status) <=> result = 0
    /\ NegativeSet(status) <=> Bit7(result)

\* C16: every LDA, TAX or INX that executes leaves status bit 1 set iff its
\* result is 0 and bit 7 equal to bit 7 of its result, and every STA that
\* executes leaves both bits as they were; so in every state of a run the two
\* bits are those of the most recent flag-affecting result.
FlagsFollowLastResult ==
    [][(phase = "running" /\ phase' = "running") =>
         /\ Fetched(cpu) \in LDA_CODES => FlagsOf(cpu'.status, cpu'.register_a)
         /\ Fetched(cpu) \in {170, 232} => FlagsOf(cpu'.status, cpu'.register_x)
         /\ Fetched(cpu) \in STA_CODES =>
               /\ ZeroSet(cpu'.status) <=> ZeroSet(cpu.status)
               /\ NegativeSet(cpu'.status) <=> NegativeSet(cpu.status)]_vars

\* LDA #$80; STA $10; INX; STA $11; BRK has halted under a status that had the
\* zero flag set: the flags are those of INX's result 2, the stores kept them
FlagsAfterStores ==
    /\ phase = "halted"
    /\ call.program = LdaStaInxSta(128)
    /\ cpu.register_x = 2
    /\ Cell(cpu.memory, 16) = 128
    /\ Cell(cpu.memory, 17) = 128
    /\ cpu.status = And8(NOT_ZERO_FLAG, NOT_NEGATIVE_FLAG)

\* C17: an STA whose operand address resolves stores register_a at that address
\* and changes nothing else: registers and status keep their values, and so
\* does every other memory cell, whatever the address (0x8000-0xFFFF included).
StaWritesOnlyTarget ==
    [][(/\ phase = "running"
        /\ Fetched(cpu) \in STA_CODES
        /\ Ok(get_operand_address(HandlerView(cpu), FetchedMode(cpu)))) =>
         \E ea \in {get_operand_address(HandlerView(cpu), FetchedMode(cpu)).val} :
             /\ phase' = "running"
             /\ cpu'.memory = Store(cpu.memory, ea, cpu.register_a)
             /\ cpu'.register_a = cpu.register_a
             /\ cpu'.register_x = cpu.register_x
             /\ cpu'.register_y = cpu.register_y
             /\ cpu'.status = cpu.status]_vars

\* every variant of AddressingMode
AddressingModes == ResolvedModes \cup {"Indirect_X", "Indirect_Y", "NoneAddressing"}

\* the panic names the mode
NamesMode(p, mode) == <<"mode", mode>> \in p.args

\* C18: lda and sta called with NoneAddressing or Indirect_Y (the mode run
\* dispatches for 0xB1 and 0x91) panic with a message naming the mode and leave
\* registers, flags and memory as they were; get_operand_address returns the
\* CPU it was given in every mode.
UnresolvableModeReported ==
    [][phase = "running" =>
         /\ \A mode \in {"NoneAddressing", "Indirect_Y"} :
               \A r \in {lda(cpu, mode), sta(cpu, mode)} :
                   ~Ok(r) /\ NamesMode(r.panic, mode) /\ r.cpu = cpu
         /\ \A mode \in AddressingModes : get_operand_address(cpu, mode).cpu = cpu
         /\ (Fetched(cpu) \in LDA_CODES \cup STA_CODES /\ FetchedMode(cpu) = "Indirect_Y") =>
               /\ phase' = "panicked"
               /\ NamesMode(panic', "Indirect_Y")
               /\ cpu' = HandlerView(cpu)]_vars

\* C19: run terminates: every iteration that continues the loop leaves the
\* program counter strictly larger and still below 65536, so a run is at most
\* 65536 iterations long, and every run reaches the halt opcode or a panic.
RunTerminates ==
    /\ [][(phase = "running" /\ phase' = "running") =>
            /\ cpu'.program_counter > cpu.program_counter
            /\ cpu'.program_counter < W16]_vars
    /\ (phase = "running") ~> (phase \in {"halted", "panicked"})

\* LDA #$E8; STA $8005; BRK; BRK has run the INX its store wrote at 0x8005 and
\* halted on the BRK after it
SelfModifyingHalted ==
    /\ phase = "halted"
    /\ call.program = SelfModifying
    /\ Cell(entry_memory, ROM_START + 5) = 0
    /\ Cell(cpu.memory, ROM_START + 5) = 232
    /\ cpu.register_a = 232
    /\ cpu.program_counter = ROM_START + 7

\* load's copy failed: load_and_run panicked before reset and run
LoadPanicked == phase = "panicked" /\ panic.kind = SlicePanic(0).kind

\* C20: from load_and_run's reset on, through every iteration of its run,
\* register_y is 0, and ZeroPage_Y resolves as ZeroPage and Absolute_Y as
\* Absolute.
IndexYStaysZero ==
    (call.op = "load_and_run" /\ ~LoadPanicked) =>
        /\ cpu.register_y = 0
        /\ get_operand_address(HandlerView(cpu), "ZeroPage_Y")
             = get_operand_address(HandlerView(cpu), "ZeroPage")
        /\ get_operand_address(HandlerView(cpu), "Absolute_Y")
             = get_operand_address(HandlerView(cpu), "Absolute")

\* load_and_run of LDA $0010,Y; BRK with memory 0x10: 0x55 has halted with the
\* byte at 0x0010 loaded
AbsoluteYLoadedUnindexed ==
    /\ phase = "halted"
    /\ call.op = "load_and_run"
    /\ call.program = Vec(<<185, 16, 0, 0>>)
    /\ Cell(cpu.memory, 16) = 85
    /\ cpu.register_a = 85
    /\ cpu.register_y = 0

===========================================================================
